---------------------------- MODULE Spec2Model ----------------------------
(***************************************************************************)
(* Model of src/app.py: the Streamlit application "Employment in Coastal   *)
(* Inundation Zones".                                                      *)
(*                                                                         *)
(* A Python str is a sequence of one-character strings (so that sorting,   *)
(* str.replace and str.isdigit are computed, not assumed); "" is << >>.    *)
(* A DataFrame is a sequence of rows in storage order.  A cell is a record *)
(* [nan, v]: nan = TRUE is pandas' NaN (an empty CSV cell).                *)
(***************************************************************************)
EXTENDS Integers, Sequences, FiniteSets, TLC

(***************************************************************************)
(* Bounds of the model.                                                    *)
(***************************************************************************)
\* Largest number of rows of a dataset of the application specification.
MaxRows == 2
\* Largest count (establishments, employment, ...) of the enumerated records.
MaxCount == 3

(***************************************************************************)
(* Strings.                                                                *)
(***************************************************************************)
\* The characters of the model in code-point order: Python compares str
\* values code point by code point.
Alphabet == <<" ", ".", "0", "1", "2", "3", "4", "5", "6", "7", "8", "9",
              "A", "B", "C", "D", "E", "F", "G", "H", "I", "J", "K", "L", "M",
              "N", "O", "P", "Q", "R", "S", "T", "U", "V", "W", "X", "Y", "Z",
              "_",
              "a", "b", "c", "d", "e", "f", "g", "h", "i", "j", "k", "l", "m",
              "n", "o", "p", "q", "r", "s", "t", "u", "v", "w", "x", "y", "z">>

Ord(ch) == CHOOSE i \in 1..Len(Alphabet) : Alphabet[i] = ch

EmptyStr == << >>

Alabama == <<"A", "l", "a", "b", "a", "m", "a">>
Mississippi == <<"M", "i", "s", "s", "i", "s", "s", "i", "p", "p", "i">>
Texas == <<"T", "e", "x", "a", "s">>
MobileCounty == <<"M", "o", "b", "i", "l", "e", " ", "C", "o", "u", "n", "t", "y">>
Mobile == <<"M", "o", "b", "i", "l", "e">>
BayCountyLine == <<"B", "a", "y", " ", "C", "o", "u", "n", "t", "y", " ", "L", "i", "n", "e">>
Category3 == <<"C", "a", "t", "e", "g", "o", "r", "y", " ", "3">>
category3 == <<"c", "a", "t", "e", "g", "o", "r", "y", " ", "3">>
Cat10 == <<"C", "a", "t", " ", "1", "0">>
TropicalStorm == <<"T", "r", "o", "p", "i", "c", "a", "l", " ", "S", "t", "o", "r", "m">>
Retail == <<"R", "e", "t", "a", "i", "l">>

\* a < b for Python str values (lexicographic by code point; a proper prefix
\* is smaller).
RECURSIVE StrLess(_, _)
StrLess(a, b) ==
    IF b = << >> THEN FALSE
    ELSE IF a = << >> THEN TRUE
    ELSE IF Head(a) = Head(b) THEN StrLess(Tail(a), Tail(b))
    ELSE Ord(Head(a)) < Ord(Head(b))

\* s.startswith(prefix, i): prefix occurs in s at position i (1-based).
OccursAt(s, old, i) ==
    /\ i + Len(old) - 1 <= Len(s)
    /\ \A j \in 1..Len(old) : s[i + j - 1] = old[j]

\* s.replace(old, ""), from position i on: every non-overlapping occurrence of
\* old, scanning left to right, is removed.
RECURSIVE RemoveAllFrom(_, _, _)
RemoveAllFrom(s, old, i) ==
    IF i > Len(s) THEN << >>
    ELSE IF OccursAt(s, old, i) THEN RemoveAllFrom(s, old, i + Len(old))
    ELSE <<s[i]>> \o RemoveAllFrom(s, old, i + 1)

IsDigit(ch) == ch \in {"0", "1", "2", "3", "4", "5", "6", "7", "8", "9"}

\* ''.join(filter(str.isdigit, s))
Digits(s) == SelectSeq(s, IsDigit)

SeqSet(q) == {q[i] : i \in 1..Len(q)}

(***************************************************************************)
(* pandas and builtins.                                                    *)
(***************************************************************************)
NaN == [nan |-> TRUE, v |-> 0]
Num(n) == [nan |-> FALSE, v |-> n]
NaNLabel == [nan |-> TRUE, v |-> << >>]
Label(s) == [nan |-> FALSE, v |-> s]

\* pd.notna(cell)
notna(cell) == ~cell.nan

\* Series.unique(): the distinct values in order of first appearance.
RECURSIVE unique(_)
unique(q) ==
    IF q = << >> THEN << >>
    ELSE LET r == unique(SubSeq(q, 1, Len(q) - 1))
             x == q[Len(q)]
         IN IF x \in SeqSet(r) THEN r ELSE Append(r, x)

\* x inserted into the ascending sequence q, after the elements not above it.
RECURSIVE Insert(_, _)
Insert(x, q) ==
    IF q = << >> THEN <<x>>
    ELSE IF StrLess(x, Head(q)) THEN <<x>> \o q
    ELSE <<Head(q)>> \o Insert(x, Tail(q))

RECURSIVE InsertionSort(_)
InsertionSort(q) ==
    IF q = << >> THEN << >>
    ELSE Insert(q[Len(q)], InsertionSort(SubSeq(q, 1, Len(q) - 1)))

\* The list as it is, unsorted.
SortedUnsorted(q) == q
\* sorted(q) for a list of str.
sorted(q) == InsertionSort(q)

\* Python truthiness of a selectbox value: None and "" are falsy.
None == <<"None">>
Truthy(x) == x # None /\ x # EmptyStr

\* round(num / den) for den > 0, ties to the even integer (Python's round()).
\* The quotient is taken exactly; the code takes it in binary floating point.
RoundHalfEven(num, den) ==
    LET q == num \div den
        r == num % den
    IN IF 2 * r < den THEN q
       ELSE IF 2 * r > den THEN q + 1
       ELSE IF q % 2 = 0 THEN q ELSE q + 1


(***************************************************************************)
(* main(): the candidate lists of the three select boxes.                  *)
(***************************************************************************)
Column(df, name) == [i \in 1..Len(df) |-> df[i][name]]

\* The rows of every state: the mask on State left out.
RowsOfStateAnyState(df, selected_state) == df
\* df[df['State'] == selected_state]
RowsOfState(df, selected_state) ==
    SelectSeq(df, LAMBDA r : r.State = selected_state)

\* df[(df['State'] == selected_state) & (df['County'] == selected_county)]
RowsOfCounty(df, selected_state, selected_county) ==
    SelectSeq(df, LAMBDA r : r.State = selected_state /\ r.County = selected_county)

\* states = sorted(df['State'].unique())
States(df) == sorted(unique(Column(df, "State")))

\* counties = sorted(df[df['State'] == selected_state]['County'].unique())
Counties(df, selected_state) ==
    sorted(unique(Column(RowsOfState(df, selected_state), "County")))

\* inundation_types = sorted(df[...]['inundation_zone'].unique())
InundationTypes(df, selected_state, selected_county) ==
    sorted(unique(Column(RowsOfCounty(df, selected_state, selected_county),
                         "inundation_zone")))

\* st.selectbox(label, options): the value the widget returns in a run.  The
\* widget keeps the value the user chose while its options are those of the
\* run before; with other options it is a new widget showing its first
\* option.  A select box without options returns None.
SelectBox(options, shownOptions, chosen) ==
    IF options = << >> THEN None
    ELSE IF options = shownOptions /\ chosen \in SeqSet(options) THEN chosen
    ELSE options[1]

(***************************************************************************)
(* main(): the results of a complete selection.                            *)
(***************************************************************************)
\* The rows the boolean mask of the selection keeps, in storage order.
MatchingRows(df, selected_state, selected_county, selected_inundation) ==
    SelectSeq(df, LAMBDA r : /\ r.State = selected_state
                             /\ r.County = selected_county
                             /\ r.inundation_zone = selected_inundation)

\* rows.iloc[-1]: the last row instead of the first.
ilocLast(rows) == rows[Len(rows)]
\* rows.iloc[0], for a non-empty selection of rows.
iloc0(rows) == rows[1]

\* The ratio scaled by 1000 instead of 100.
PercentOfThousand(part, whole) ==
    IF whole > 0 THEN RoundHalfEven(part * 1000, whole) ELSE 0
\* round((part / whole) * 100) if whole > 0 else 0
Percent(part, whole) ==
    IF whole > 0 THEN RoundHalfEven(part * 100, whole) ELSE 0

\* round(dollars / 1_000_000, 1), in tenths of a million.
LostMillions(dollars) == RoundHalfEven(dollars, 100000)

\* display_county = selected_county.replace(" County", "")
DisplayCounty(selected_county) ==
    RemoveAllFrom(selected_county, <<" ", "C", "o", "u", "n", "t", "y">>, 1)

\* state_abbreviations.get(selected_state, '')
StateAbbr(selected_state) ==
    IF selected_state = Alabama THEN <<"A", "L">>
    ELSE IF selected_state = Mississippi THEN <<"M", "S">>
    ELSE EmptyStr

\* image_name = f"{display_county}_{state_abbr}_cat{slosh_cat_num}.jpg"
ImageName(selected_state, display_county, selected_inundation) ==
    display_county \o <<"_">> \o StateAbbr(selected_state)
        \o <<"_", "c", "a", "t">> \o Digits(selected_inundation)
        \o <<".", "j", "p", "g">>

\* The slots of the loop `for i in range(1, 6)`.
SlotRange == 1..5

\* One table row of slot i.
TableRow(selection_data, total_emp_in_zone, i) ==
    [rank |-> i,
     naics_code |-> selection_data.slots[i].impacted_naics4.v,
     ind_group |-> selection_data.slots[i].impacted_indgrp.v,
     emp_percent |-> Percent(selection_data.slots[i].emp_naics4.v,
                             total_emp_in_zone)]

RECURSIVE TableRowsFrom(_, _, _)
TableRowsFrom(selection_data, total_emp_in_zone, i) ==
    IF i \notin SlotRange THEN << >>
    ELSE IF notna(selection_data.slots[i].impacted_indgrp)
         THEN <<TableRow(selection_data, total_emp_in_zone, i)>>
                  \o TableRowsFrom(selection_data, total_emp_in_zone, i + 1)
         ELSE TableRowsFrom(selection_data, total_emp_in_zone, i + 1)

\* The table rows renumbered 1, 2, ... in the order they are listed.
Renumbered(rows) == [j \in 1..Len(rows) |-> [rows[j] EXCEPT !.rank = j]]

\* The loop with a rank counted per listed row instead of the slot index.
RankIndustriesRenumbered(selection_data, total_emp_in_zone) ==
    Renumbered(TableRowsFrom(selection_data, total_emp_in_zone, 1))
\* The rows of the industry table: the loop of lines 117-124.
RankIndustries(selection_data, total_emp_in_zone) ==
    TableRowsFrom(selection_data, total_emp_in_zone, 1)

\* int(cell) raises ValueError for NaN.
IntRaises(cell) == cell.nan

\* A populated slot whose code or employment is NaN makes the loop raise.
LoopRaises(selection_data) ==
    \E i \in SlotRange :
        /\ notna(selection_data.slots[i].impacted_indgrp)
        /\ \/ IntRaises(selection_data.slots[i].impacted_naics4)
           \/ IntRaises(selection_data.slots[i].emp_naics4)

\* What a run shows below the divider when nothing of the results is shown.
NoResults(status) ==
    [status |-> status, selection_data |-> << >>,
     percent_establishments |-> 0, percent_employment |-> 0,
     lost_wages_millions |-> 0, lost_sales_millions |-> 0,
     display_county |-> EmptyStr, table |-> << >>, tableShown |-> FALSE,
     image_name |-> EmptyStr]

\* Lines 73-184: the results of the selection.  status is "ok", "incomplete"
\* (the st.info branch) or the exception that ends the run.
DisplayResults(df, selected_state, selected_county, selected_inundation) ==
    IF ~(Truthy(selected_state) /\ Truthy(selected_county)
            /\ Truthy(selected_inundation))
    THEN NoResults("incomplete")
    ELSE
    LET rows == MatchingRows(df, selected_state, selected_county,
                             selected_inundation)
    IN IF rows = << >> THEN NoResults("IndexError")
       ELSE
       LET selection_data == iloc0(rows)
       IN IF \/ IntRaises(selection_data.Establishments)
             \/ IntRaises(selection_data.Employment)
             \/ IntRaises(selection_data.county_establishments)
             \/ IntRaises(selection_data.county_employment)
             \/ IntRaises(selection_data.baEMP)
          THEN NoResults("ValueError")
          ELSE
          LET establishments == selection_data.Establishments.v
              employment == selection_data.Employment.v
              county_establishments == selection_data.county_establishments.v
              county_employment == selection_data.county_employment.v
              total_emp_in_zone == selection_data.baEMP.v
              display_county == DisplayCounty(selected_county)
              shown ==
                  [status |-> "ok", selection_data |-> <<selection_data>>,
                   percent_establishments |->
                       Percent(establishments, county_establishments),
                   percent_employment |->
                       Percent(employment, county_employment),
                   lost_wages_millions |->
                       LostMillions(selection_data.wages_week.v),
                   lost_sales_millions |->
                       LostMillions(selection_data.sales_week.v),
                   display_county |-> display_county,
                   table |-> RankIndustries(selection_data, total_emp_in_zone),
                   tableShown |-> TRUE,
                   image_name |-> ImageName(selected_state, display_county,
                                            selected_inundation)]
          IN IF LoopRaises(selection_data)
             THEN [shown EXCEPT !.status = "ValueError", !.table = << >>,
                                !.tableShown = FALSE, !.image_name = EmptyStr]
             ELSE shown

(***************************************************************************)
(* The process: the file on disk, the st.cache_data memo of load_data, and *)
(* one browser session's widgets and page.                                 *)
(***************************************************************************)
VARIABLES
    file,                 \* the CSV on disk: [exists, rows]
    cache,                \* st.cache_data's entry for load_data(file_path)
    loads,                \* how many times load_data's body has run
    selected_state,       \* the values main() got in the session's last run
    selected_county,
    selected_inundation,
    view                  \* what the last run computed and showed

vars == <<file, cache, loads, selected_state, selected_county,
          selected_inundation, view>>

\* The path main() passes to load_data (line 40).
FilePath == "Expected losses by county and zone.csv"

NoneDf == [none |-> TRUE, rows |-> << >>]
DataFrame(rows) == [none |-> FALSE, rows |-> rows]

\* st.error(f"Error: The file '{file_path}' was not found. ...")
FileNotFoundMessage(file_path) == [kind |-> "st.error", path |-> file_path]

\* The body of load_data: pd.read_csv, or st.error and None when the file is
\* not found.
\* A body that swallows the failure: an empty DataFrame and no message.
ReadCsvEmptyOnError(disk, file_path) ==
    [df |-> DataFrame(disk.rows), error |-> << >>]
ReadCsv(disk, file_path) ==
    IF disk.exists
    THEN [df |-> DataFrame(disk.rows), error |-> << >>]
    ELSE [df |-> NoneDf, error |-> <<FileNotFoundMessage(file_path)>>]

NoEntry == [set |-> FALSE, value |-> [df |-> NoneDf, error |-> << >>]]

\* load_data without the decorator's lookup: the body runs on every call.
LoadDataUncached(disk, memo, file_path) ==
    [value |-> ReadCsv(disk, file_path),
     memo |-> [set |-> TRUE, value |-> ReadCsv(disk, file_path)],
     ran |-> 1]
\* @st.cache_data load_data(file_path): the body runs on a miss; its return
\* value and the elements it showed are stored and replayed on a hit.
LoadData(disk, memo, file_path) ==
    IF memo.set
    THEN [value |-> memo.value, memo |-> memo, ran |-> 0]
    ELSE [value |-> ReadCsv(disk, file_path),
          memo |-> [set |-> TRUE, value |-> ReadCsv(disk, file_path)],
          ran |-> 1]

\* The page before the session's first run.
BlankView ==
    [rendered |-> FALSE, error |-> << >>, df |-> << >>,
     states |-> << >>, counties |-> << >>, inundation_types |-> << >>,
     stateOptions |-> << >>, countyOptions |-> << >>, typeOptions |-> << >>,
     results |-> NoResults("none")]

\* main() after load_data returned `loaded`: `shown` is the page of the run
\* before, chosen_* what the user has chosen in its select boxes.
Main(loaded, shown, chosen_state, chosen_county, chosen_inundation) ==
    IF loaded.df.none
    THEN [selected_state |-> None, selected_county |-> None,
          selected_inundation |-> None,
          view |-> [BlankView EXCEPT !.error = loaded.error]]
    ELSE
    LET df == loaded.df.rows
        states == States(df)
        stateOptions == <<EmptyStr>> \o states
        s == SelectBox(stateOptions, shown.stateOptions, chosen_state)
        counties == IF Truthy(s) THEN Counties(df, s) ELSE << >>
        countyOptions == IF Truthy(s) THEN <<EmptyStr>> \o counties ELSE << >>
        c == IF Truthy(s)
             THEN SelectBox(countyOptions, shown.countyOptions, chosen_county)
             ELSE None
        types == IF Truthy(s) /\ Truthy(c)
                 THEN InundationTypes(df, s, c) ELSE << >>
        typeOptions == IF Truthy(s) /\ Truthy(c)
                       THEN <<EmptyStr>> \o types ELSE << >>
        k == IF Truthy(s) /\ Truthy(c)
             THEN SelectBox(typeOptions, shown.typeOptions, chosen_inundation)
             ELSE None
    IN [selected_state |-> s, selected_county |-> c,
        selected_inundation |-> k,
        view |-> [rendered |-> TRUE, error |-> loaded.error, df |-> df,
                  states |-> states, counties |-> counties,
                  inundation_types |-> types,
                  stateOptions |-> stateOptions,
                  countyOptions |-> countyOptions,
                  typeOptions |-> typeOptions,
                  results |-> DisplayResults(df, s, c, k)]]

\* One run of the script for the session.
Run(shown, chosen_state, chosen_county, chosen_inundation) ==
    LET ld == LoadData(file, cache, FilePath)
        m == Main(ld.value, shown, chosen_state, chosen_county,
                  chosen_inundation)
    IN /\ cache' = ld.memo
       /\ loads' = loads + ld.ran
       /\ selected_state' = m.selected_state
       /\ selected_county' = m.selected_county
       /\ selected_inundation' = m.selected_inundation
       /\ view' = m.view
       /\ UNCHANGED file

(***************************************************************************)
(* The datasets and records the specifications enumerate.                  *)
(***************************************************************************)
EmptySlot ==
    [impacted_indgrp |-> NaNLabel, impacted_naics4 |-> NaN, emp_naics4 |-> NaN]

\* Slot i holding an industry group (label "Retail<i>") with `emp` employees.
IndustrySlot(i, emp) ==
    [impacted_indgrp |-> Label(Retail \o <<Alphabet[3 + i]>>),
     impacted_naics4 |-> Num(4450 + i), emp_naics4 |-> Num(emp)]

NoSlots == [i \in SlotRange |-> EmptySlot]

Row(state, county, zone, est, emp, wages, sales, cest, cemp, ba, slots) ==
    [State |-> state, County |-> county, inundation_zone |-> zone,
     Establishments |-> est, Employment |-> emp,
     wages_week |-> wages, sales_week |-> sales,
     county_establishments |-> cest, county_employment |-> cemp,
     baEMP |-> ba, slots |-> slots]

\* Two rows' worth of figures, different in every figure shown.
AppRow(state, county, zone, p) ==
    IF p = 1
    THEN Row(state, county, zone, Num(1), Num(2), Num(1200000), Num(2360000),
             Num(3), Num(3), Num(2),
             [NoSlots EXCEPT ![1] = IndustrySlot(1, 1),
                             ![3] = IndustrySlot(3, 2)])
    ELSE Row(state, county, zone, Num(2), Num(1), Num(0), Num(740000),
             Num(2), Num(0), Num(0),
             [NoSlots EXCEPT ![2] = IndustrySlot(2, 1)])

AppStates == {Alabama, Mississippi}
AppCounties == {MobileCounty, Mobile}
AppZones == {Category3, category3}

\* Alabama's rows take every county, zone and figures; Mississippi shares one
\* county name with Alabama.
AppRows ==
    {AppRow(Alabama, c, k, p) : c \in AppCounties, k \in AppZones, p \in {1, 2}}
        \cup {AppRow(Mississippi, MobileCounty, k, 1) : k \in AppZones}

\* The datasets of the application specification: up to MaxRows rows in any
\* storage order, keys repeated or not.
AppDatasets == UNION {[1..n -> AppRows] : n \in 0..MaxRows}

(***************************************************************************)
(* Spec: the application.  Each action is one run of the script (a new     *)
(* session, or the rerun a widget change triggers), or a change of the     *)
(* file on disk.                                                           *)
(***************************************************************************)
Init ==
    /\ file \in {[exists |-> FALSE, rows |-> << >>]}
                  \cup {[exists |-> TRUE, rows |-> d] : d \in AppDatasets}
    /\ cache = NoEntry
    /\ loads = 0
    /\ selected_state = None
    /\ selected_county = None
    /\ selected_inundation = None
    /\ view = BlankView

\* A browser session opens the page: every widget is new.
OpenSession == Run(BlankView, None, None, None)

\* The user picks v in "Select a State".
ChooseState(v) ==
    /\ view.rendered
    /\ v \in SeqSet(view.stateOptions)
    /\ v # selected_state
    /\ Run(view, v, selected_county, selected_inundation)

\* The user picks v in "Select a County".
ChooseCounty(v) ==
    /\ view.rendered
    /\ v \in SeqSet(view.countyOptions)
    /\ v # selected_county
    /\ Run(view, selected_state, v, selected_inundation)

\* The user picks v in "Select Inundation Type".
ChooseInundation(v) ==
    /\ view.rendered
    /\ v \in SeqSet(view.typeOptions)
    /\ v # selected_inundation
    /\ Run(view, selected_state, selected_county, v)

\* The script reruns with the widgets as they are.
Rerun ==
    /\ view # BlankView
    /\ Run(view, selected_state, selected_county, selected_inundation)

\* The environment removes the file.
RemoveFile ==
    /\ file.exists
    /\ file' = [exists |-> FALSE, rows |-> << >>]
    /\ UNCHANGED <<cache, loads, selected_state, selected_county,
                   selected_inundation, view>>

\* The environment rewrites the file without its first row.
TruncateFile ==
    /\ file.exists
    /\ file.rows # << >>
    /\ file' = [file EXCEPT !.rows = Tail(file.rows)]
    /\ UNCHANGED <<cache, loads, selected_state, selected_county,
                   selected_inundation, view>>

\* The environment creates the file after a run has found it missing.
CreateFile(d) ==
    /\ ~file.exists
    /\ cache.set
    /\ cache.value.df.none
    /\ file' = [exists |-> TRUE, rows |-> d]
    /\ UNCHANGED <<cache, loads, selected_state, selected_county,
                   selected_inundation, view>>

AllStrings == AppStates \cup AppCounties \cup AppZones \cup {EmptyStr}

Next ==
    \/ OpenSession
    \/ \E v \in AllStrings : ChooseState(v)
    \/ \E v \in AllStrings : ChooseCounty(v)
    \/ \E v \in AllStrings : ChooseInundation(v)
    \/ Rerun
    \/ RemoveFile
    \/ TruncateFile
    \/ \E d \in AppDatasets : CreateFile(d)

Spec == Init /\ [][Next]_vars

(***************************************************************************)
(* SpecCore: the results block of main() (lines 73-184) applied to a       *)
(* loaded dataset and a selection, both drawn from bounded sets: the       *)
(* selection is any three strings, the record any of the enumerated        *)
(* figures.                                                                *)
(***************************************************************************)
CoreStates == {Alabama, Mississippi, Texas}
CoreCounties == {MobileCounty, Mobile, BayCountyLine}
CoreZones == {Category3, category3, Cat10, TropicalStorm}

\* A row with the given key and fixed figures.
KeyRow(state, county, zone) == AppRow(state, county, zone, 1)

\* A row of fixed key with the given figures.
FigureRow(est, emp, cest, cemp, ba, slots) ==
    Row(Alabama, MobileCounty, Category3, Num(est), Num(emp),
        Num(1200000), Num(2360000), cest, cemp, ba, slots)

Counts == 0..MaxCount
\* A denominator cell: empty, negative, zero or positive.
Denominators == {NaN} \cup {Num(n) : n \in -1..MaxCount}

\* Figures with ties and larger quotients: <<part, whole>>.
ScenarioPairs == {<<120, 1000>>, <<900, 9000>>, <<1, 8>>, <<3, 8>>, <<5, 8>>}

\* A slot: empty, or populated with an employment count.
SlotChoices(i) == {EmptySlot} \cup {IndustrySlot(i, e) : e \in Counts}
SlotTables ==
    {<<s1, s2, s3, s4, s5>> :
        s1 \in SlotChoices(1), s2 \in SlotChoices(2), s3 \in SlotChoices(3),
        s4 \in SlotChoices(4), s5 \in SlotChoices(5)}

loaded(d) ==
    /\ file = [exists |-> TRUE, rows |-> d]
    /\ cache = [set |-> TRUE, value |-> [df |-> DataFrame(d), error |-> << >>]]
    /\ loads = 1
    /\ view = BlankView

\* Any selection against an empty or one-row dataset of any key.
InitSelections ==
    /\ \E d \in {<< >>} \cup {<<KeyRow(s, c, k)>> :
                    s \in CoreStates, c \in CoreCounties, k \in CoreZones} :
           loaded(d)
    /\ selected_state \in CoreStates \cup {EmptyStr}
    /\ selected_county \in CoreCounties \cup {EmptyStr}
    /\ selected_inundation \in CoreZones \cup {EmptyStr}

\* The selection of the one row, whose counts and denominators vary.
InitFigures ==
    /\ \E est \in Counts, emp \in Counts,
          cest \in Denominators, cemp \in Denominators :
           loaded(<<FigureRow(est, emp, cest, cemp, Num(2),
                              [NoSlots EXCEPT ![1] = IndustrySlot(1, 1)])>>)
    /\ selected_state = Alabama
    /\ selected_county = MobileCounty
    /\ selected_inundation = Category3

InitScenarios ==
    /\ \E a \in ScenarioPairs, b \in ScenarioPairs :
           loaded(<<FigureRow(a[1], b[1], Num(a[2]), Num(b[2]), Num(b[2]),
                              [NoSlots EXCEPT ![2] = IndustrySlot(2, a[1])])>>)
    /\ selected_state = Alabama
    /\ selected_county = MobileCounty
    /\ selected_inundation = Category3

\* The selection of the one row, whose industry slots and zone total vary.
InitSlots ==
    /\ \E ba \in Denominators, t \in SlotTables :
           loaded(<<FigureRow(1, 2, Num(3), Num(3), ba, t)>>)
    /\ selected_state = Alabama
    /\ selected_county = MobileCounty
    /\ selected_inundation = Category3

InitCore == InitSelections \/ InitFigures \/ InitScenarios \/ InitSlots

\* Lines 73-184 run on the loaded dataset and the selection.
ShowResults ==
    /\ view' = [BlankView EXCEPT
                   !.rendered = TRUE,
                   !.df = cache.value.df.rows,
                   !.results = DisplayResults(cache.value.df.rows,
                                              selected_state, selected_county,
                                              selected_inundation)]
    /\ UNCHANGED <<file, cache, loads, selected_state, selected_county,
                   selected_inundation>>

NextCore == ShowResults

SpecCore == InitCore /\ [][NextCore]_vars

(***************************************************************************)
(* Properties.                                                             *)
(***************************************************************************)
StrictlyAscending(q) == \A i \in 1..(Len(q) - 1) : StrLess(q[i], q[i + 1])

\* The selection the last run worked with is complete.
Complete ==
    Truthy(selected_state) /\ Truthy(selected_county)
        /\ Truthy(selected_inundation)

Matches(r) ==
    /\ r.State = selected_state
    /\ r.County = selected_county
    /\ r.inundation_zone = selected_inundation

\* The positions of the rows of the run's dataset that match the selection.
MatchingPositions == {i \in 1..Len(view.df) : Matches(view.df[i])}

\* C1: the candidate lists are strictly ascending in lexicographic order (so
\* sorted and duplicate-free); the states are exactly the State values of the
\* dataset; the counties exactly the County values of the rows of the selected
\* state, none when no state is selected; the categories exactly the
\* inundation_zone values of the rows of the selected state and county, none
\* when either is unselected.
C1_CandidatesSortedDistinct ==
    view.rendered =>
        /\ StrictlyAscending(view.states)
        /\ StrictlyAscending(view.counties)
        /\ StrictlyAscending(view.inundation_types)
        /\ SeqSet(view.states) = {r.State : r \in SeqSet(view.df)}
        /\ SeqSet(view.counties) =
               IF Truthy(selected_state)
               THEN {r.County :
                        r \in {x \in SeqSet(view.df) : x.State = selected_state}}
               ELSE {}
        /\ SeqSet(view.inundation_types) =
               IF Truthy(selected_state) /\ Truthy(selected_county)
               THEN {r.inundation_zone :
                        r \in {x \in SeqSet(view.df) :
                                  /\ x.State = selected_state
                                  /\ x.County = selected_county}}
               ELSE {}

\* C1 witness: two states stored in descending order are listed ascending, and
\* a county of the selected state has its categories listed.
C1_Witness ==
    /\ view.rendered
    /\ Len(view.df) = 2
    /\ view.df[1].State = Mississippi
    /\ view.states = <<Alabama, Mississippi>>
    /\ selected_state = Mississippi
    /\ view.counties = <<MobileCounty>>
    /\ Truthy(selected_county)
    /\ Len(view.inundation_types) = 1

C3_FirstMatchingRow ==
    (view.rendered /\ Complete /\ MatchingPositions # {}) =>
        \E i \in MatchingPositions :
            /\ \A j \in MatchingPositions : i <= j
            /\ view.results.status = "ok"
            /\ view.results.selection_data = <<view.df[i]>>
            /\ view.results.percent_establishments =
                   Percent(view.df[i].Establishments.v,
                           view.df[i].county_establishments.v)
            /\ view.results.percent_employment =
                   Percent(view.df[i].Employment.v,
                           view.df[i].county_employment.v)
            /\ view.results.lost_wages_millions =
                   LostMillions(view.df[i].wages_week.v)
            /\ view.results.lost_sales_millions =
                   LostMillions(view.df[i].sales_week.v)
            /\ view.results.table =
                   RankIndustries(view.df[i], view.df[i].baEMP.v)

\* C3 witness: two rows with different figures match the selection.
C3_Witness ==
    /\ view.results.status = "ok"
    /\ MatchingPositions = {1, 2}
    /\ view.df[1] # view.df[2]

\* With denominator cell `den` absent or <= 0, the results are shown and each
\* of `percentages` (those computed from it) is 0.
DenominatorZero(den, percentages) ==
    (den.nan \/ den.v <= 0) =>
        /\ view.results.status = "ok"
        /\ \A p \in percentages : p = 0

\* C4: for the resolved record, a percentage whose denominator is absent or
\* <= 0 is 0, and the computation raises no error.
C4_ZeroWhenDenominatorAbsentOrNotPositive ==
    (view.rendered /\ Complete /\ MatchingPositions # {}) =>
        LET r == view.df[CHOOSE i \in MatchingPositions :
                             \A j \in MatchingPositions : i <= j]
        IN /\ DenominatorZero(r.county_establishments,
                              {view.results.percent_establishments})
           /\ DenominatorZero(r.county_employment,
                              {view.results.percent_employment})
           /\ DenominatorZero(r.baEMP,
                              {view.results.table[j].emp_percent :
                                   j \in 1..Len(view.results.table)})

\* The part of C4 the code keeps: with every denominator present, a percentage
\* whose denominator is <= 0 is 0.
ZeroWhenDenominatorNotPositive ==
    view.results.status = "ok" =>
        LET r == view.results.selection_data[1]
        IN /\ r.county_establishments.v <= 0
                  => view.results.percent_establishments = 0
           /\ r.county_employment.v <= 0
                  => view.results.percent_employment = 0
           /\ r.baEMP.v <= 0
                  => \A j \in 1..Len(view.results.table) :
                         view.results.table[j].emp_percent = 0

\* The cells lines 82-88 convert with int() hold numbers.
FiguresPresent(r) ==
    /\ notna(r.Establishments) /\ notna(r.Employment)
    /\ notna(r.county_establishments) /\ notna(r.county_employment)
    /\ notna(r.baEMP)

\* C5: the industry table lists exactly the populated slots of ranks 1..5 in
\* ascending slot order, at most 5 of them, each with its slot index as rank
\* and its own code and label; with no populated slot it is empty and the
\* results are shown without error.
C5_RankIntegrity ==
    (view.rendered /\ Complete /\ MatchingPositions # {}) =>
        LET r == view.df[CHOOSE i \in MatchingPositions :
                             \A j \in MatchingPositions : i <= j]
            populated == {i \in 1..5 : ~r.slots[i].impacted_indgrp.nan}
            t == view.results.table
        IN FiguresPresent(r) =>
            /\ view.results.status = "ok"
            /\ view.results.tableShown
            /\ Len(t) = Cardinality(populated)
            /\ Len(t) <= 5
            /\ \A j \in 1..Len(t) :
                   /\ t[j].rank \in populated
                   /\ t[j].ind_group = r.slots[t[j].rank].impacted_indgrp.v
                   /\ t[j].naics_code = r.slots[t[j].rank].impacted_naics4.v
            /\ \A j \in 1..(Len(t) - 1) : t[j].rank < t[j + 1].rank

\* C5 witness: slots 1 and 3 are populated, slot 2 is not, and the table
\* holds ranks 1 and 3 in that order.
C5_Witness ==
    /\ view.results.status = "ok"
    /\ Len(view.results.table) = 2
    /\ view.results.table[1].rank = 1
    /\ view.results.table[2].rank = 3
    /\ view.results.selection_data[1].slots[2].impacted_indgrp.nan

\* county with a trailing " County" removed, and nothing else.
TrailingCountyStripped(county) ==
    IF /\ Len(county) >= 7
       /\ SubSeq(county, Len(county) - 6, Len(county))
              = <<" ", "C", "o", "u", "n", "t", "y">>
    THEN SubSeq(county, 1, Len(county) - 7)
    ELSE county

\* C6: the asset id is the county without a trailing " County", "_", the
\* state's abbreviation (empty for an unknown state), "_cat", the digits of
\* the category in order, ".jpg".
C6_AssetId ==
    view.results.status = "ok" =>
        view.results.image_name =
            TrailingCountyStripped(selected_county) \o <<"_">>
                \o (IF selected_state = Alabama THEN <<"A", "L">>
                    ELSE IF selected_state = Mississippi THEN <<"M", "S">>
                    ELSE << >>)
                \o <<"_", "c", "a", "t">>
                \o SelectSeq(selected_inundation, IsDigit)
                \o <<".", "j", "p", "g">>

\* The part of C6 the code keeps: the asset id of a county in which " County"
\* occurs nowhere but at its end.
AssetIdOfPlainCounty ==
    (view.results.status = "ok" /\ selected_county # BayCountyLine) =>
        /\ C6_AssetId
        /\ (selected_state = Alabama /\ selected_county = MobileCounty
                /\ selected_inundation = Category3)
               => view.results.image_name =
                      <<"M", "o", "b", "i", "l", "e", "_", "A", "L", "_",
                        "c", "a", "t", "3", ".", "j", "p", "g">>

\* The page of a failed load: the error with the attempted path, and nothing
\* else.
FailureSurfaced ==
    /\ view.error = <<[kind |-> "st.error", path |-> FilePath]>>
    /\ ~view.rendered
    /\ view.states = << >> /\ view.counties = << >>
    /\ view.inundation_types = << >>
    /\ view.results.status = "none"
    /\ view.results.selection_data = << >>
    /\ view.results.image_name = EmptyStr

C8_CascadingConsistency ==
    view.rendered =>
        /\ \A c \in SeqSet(view.counties) :
               \E i \in 1..Len(view.df) :
                   /\ view.df[i].State = selected_state
                   /\ view.df[i].County = c
        /\ \A k \in SeqSet(view.inundation_types) :
               \E i \in 1..Len(view.df) :
                   /\ view.df[i].State = selected_state
                   /\ view.df[i].County = selected_county
                   /\ view.df[i].inundation_zone = k
        /\ selected_state \in SeqSet(view.stateOptions)
        /\ Truthy(selected_county)
               => selected_county \in SeqSet(view.counties)
        /\ Truthy(selected_inundation)
               => selected_inundation \in SeqSet(view.inundation_types)
        /\ Complete =>
               /\ view.results.status = "ok"
               /\ Len(view.results.selection_data) = 1
               /\ Matches(view.results.selection_data[1])

\* C8 witness: a selection made level by level in a dataset of two states has
\* resolved to a record.
C8_Witness ==
    /\ Len(view.states) = 2
    /\ Complete
    /\ view.results.status = "ok"
    /\ selected_state = Mississippi

\* C9: for a record with county_establishments > 0 and
\* 0 <= Establishments <= county_establishments the percentage of
\* establishments is an integer in 0..100; likewise for employment.
C9_BoundedPercentages ==
    view.results.status = "ok" =>
        LET r == view.results.selection_data[1]
        IN /\ (/\ r.county_establishments.v > 0
               /\ 0 <= r.Establishments.v
               /\ r.Establishments.v <= r.county_establishments.v)
                  => view.results.percent_establishments \in 0..100
           /\ (/\ r.county_employment.v > 0
               /\ 0 <= r.Employment.v
               /\ r.Employment.v <= r.county_employment.v)
                  => view.results.percent_employment \in 0..100

\* C9 witness: a third of the county's establishments and all of its jobs.
C9_Witness ==
    /\ view.results.status = "ok"
    /\ view.results.selection_data[1].Establishments.v = 1
    /\ view.results.selection_data[1].county_establishments.v = 3
    /\ view.results.percent_establishments = 33
    /\ view.results.selection_data[1].Employment.v = 3
    /\ view.results.percent_employment = 100

\* C10: load_data's body runs at most once, on the first run; the cached
\* dataset never changes afterwards, whatever happens to the file, and every
\* run works on it.
C10_LoadedOnceNeverMutated ==
    [][/\ loads' <= 1
       /\ (loads' # loads) <=> (~cache.set /\ cache'.set)
       /\ cache.set => cache' = cache
       /\ view'.rendered => view'.df = cache'.value.df.rows]_vars

\* C10 witness: results are on the page, from the one load, while the file on
\* disk is gone.
C10_Witness ==
    /\ loads = 1
    /\ cache.set /\ ~cache.value.df.none
    /\ ~file.exists
    /\ view.results.status = "ok"
    /\ view.df = cache.value.df.rows

=============================================================================
